---- MODULE Spec2Model ----
(***************************************************************************)
(* Model of the lexical scanner (analisador.py) and of the recursive       *)
(* descent recognizer (sintatico.py).                                      *)
(*                                                                         *)
(* The recognizer is a state machine over the Parser object's fields       *)
(* (tokens, pos, current_token), the position in the code (pc, named after *)
(* the function and the source line about to run), the call stack and the  *)
(* SyntaxError raised, if any.  The scanner is a state machine over the    *)
(* locals of analisar_linha, one step per iteration of its outer loop.     *)
(***************************************************************************)
EXTENDS Integers, Sequences, FiniteSets, TLC

VARIABLES tokens, pos, current_token, pc, stack, err,
          linha, num_linha, i, lex_tokens, lex_pc

parserVars == <<tokens, pos, current_token, pc, stack, err>>
lexVars == <<linha, num_linha, i, lex_tokens, lex_pc>>
vars == <<tokens, pos, current_token, pc, stack, err, linha, num_linha, i, lex_tokens, lex_pc>>

(***************************************************************************)
(* tokens.py                                                               *)
(***************************************************************************)
PALAVRA_RESERVADA == "PalavraReservada"
IDENTIFICADOR == "Identificador"
NUMERO == "Numero"
REAL == "Real"
STRING_ == "String"
CARACTERE == "Caractere"
OPERADOR == "Operador"
SIMBOLO == "Simbolo"
COMENTARIO == "Comentario"
ERRO == "Erro"

TokenType ==
  {PALAVRA_RESERVADA, IDENTIFICADOR, NUMERO, REAL, STRING_, CARACTERE,
   OPERADOR, SIMBOLO, COMENTARIO, ERRO}

Token(tipo, valor, ln) == [tipo |-> tipo, valor |-> valor, linha |-> ln]

\* Python's None, as the value of current_token and of an optional argument.
None == [tipo |-> "None", valor |-> "None", linha |-> 0]
NoValue == "None"

(***************************************************************************)
(* SyntaxError: the message template, the values formatted into it, and    *)
(* the linha attribute (an integer, the string "EOF", or None).            *)
(***************************************************************************)
Absent == "-"
LinhaInt(n) == [tag |-> "int", n |-> n]
LinhaEOF == [tag |-> "EOF", n |-> 0]
LinhaNone == [tag |-> "None", n |-> 0]

SyntaxError(msg, ln, exp_tipo, exp_valor, got_tipo, got_valor, ident) ==
  [msg |-> msg, linha |-> ln, exp_tipo |-> exp_tipo, exp_valor |-> exp_valor,
   got_tipo |-> got_tipo, got_valor |-> got_valor, ident |-> ident]

NoErr == SyntaxError("none", LinhaNone, Absent, Absent, Absent, Absent, Absent)

(***************************************************************************)
(* Parser.__init__, _advance, _consume                                     *)
(***************************************************************************)
\* self.tokens[p] if p < len(self.tokens) else None  (p is 0-based)
TokenAt(p) == IF p < Len(tokens) THEN tokens[p + 1] ELSE None

\* _advance stepping over a token.
NextPos_salta(p) == p + 2

NextPos(p) == p + 1

advance ==
  /\ pos' = NextPos(pos)
  /\ current_token' = TokenAt(NextPos(pos))

\* _consume raising its type mismatch without the token's line.
ConsumeError_sem_linha(expected_type, expected_value) ==
  IF current_token = None
    THEN SyntaxError("Unexpected end of input. Expected", LinhaNone,
                     expected_type, expected_value, Absent, Absent, Absent)
  ELSE IF current_token.tipo # expected_type
    THEN SyntaxError("Expected token type, got", LinhaNone,
                     expected_type, Absent,
                     current_token.tipo, current_token.valor, Absent)
  ELSE IF expected_value # NoValue /\ current_token.valor # expected_value
    THEN SyntaxError("Expected token value, got, for type", LinhaInt(current_token.linha),
                     Absent, expected_value,
                     current_token.tipo, current_token.valor, Absent)
  ELSE NoErr

\* _consume reporting the line of the token consumed last.
ConsumeError_linha_anterior(expected_type, expected_value) ==
  LET linha_atual == IF pos > 0 THEN tokens[pos].linha ELSE 1 IN
  IF current_token = None
    THEN SyntaxError("Unexpected end of input. Expected", LinhaNone,
                     expected_type, expected_value, Absent, Absent, Absent)
  ELSE IF current_token.tipo # expected_type
    THEN SyntaxError("Expected token type, got", LinhaInt(linha_atual),
                     expected_type, Absent,
                     current_token.tipo, current_token.valor, Absent)
  ELSE IF expected_value # NoValue /\ current_token.valor # expected_value
    THEN SyntaxError("Expected token value, got, for type", LinhaInt(linha_atual),
                     Absent, expected_value,
                     current_token.tipo, current_token.valor, Absent)
  ELSE NoErr

\* The SyntaxError _consume raises for the current token, NoErr if it matches.
ConsumeError(expected_type, expected_value) ==
  IF current_token = None
    THEN SyntaxError("Unexpected end of input. Expected", LinhaNone,
                     expected_type, expected_value, Absent, Absent, Absent)
  ELSE IF current_token.tipo # expected_type
    THEN SyntaxError("Expected token type, got", LinhaInt(current_token.linha),
                     expected_type, Absent,
                     current_token.tipo, current_token.valor, Absent)
  ELSE IF expected_value # NoValue /\ current_token.valor # expected_value
    THEN SyntaxError("Expected token value, got, for type", LinhaInt(current_token.linha),
                     Absent, expected_value,
                     current_token.tipo, current_token.valor, Absent)
  ELSE NoErr

\* An exception leaves the Parser's fields as they are; pc and stack keep
\* the place that raised.
Raise(e) ==
  /\ err' = e
  /\ UNCHANGED <<tokens, pos, current_token, pc, stack>>
  /\ UNCHANGED lexVars

Call(fn, ret) ==
  /\ pc' = fn
  /\ stack' = Append(stack, [ret |-> ret, at |-> pos])

Ret ==
  /\ pc' = stack[Len(stack)].ret
  /\ stack' = SubSeq(stack, 1, Len(stack) - 1)

Goto(l) == pc' = l /\ stack' = stack

\* self._consume(expected_type, expected_value), then continue with cont.
consume(expected_type, expected_value, cont) ==
  IF ConsumeError(expected_type, expected_value) = NoErr
    THEN advance /\ cont /\ UNCHANGED <<tokens, err>> /\ UNCHANGED lexVars
    ELSE Raise(ConsumeError(expected_type, expected_value))

\* A step that reads the current token and consumes nothing.
Peek(cont) == cont /\ UNCHANGED <<tokens, pos, current_token, err>> /\ UNCHANGED lexVars

Running == err = NoErr

IsSimbolo(t, v) == t # None /\ t.tipo = SIMBOLO /\ t.valor = v

Tipos == {"int", "real", "char"}

(***************************************************************************)
(* The grammar rules, one action per method of Parser.                     *)
(***************************************************************************)
\* parse_programa without the test for tokens left over.
parse_programa_sem_fim ==
  /\ Running
  /\ \/ /\ pc = "programa_53"
        /\ Peek(Call("funcao_61", "programa_54"))
     \/ /\ pc = "programa_54"
        /\ Peek(Goto("done"))

parse_programa ==
  /\ Running
  /\ \/ /\ pc = "programa_53"
        /\ Peek(Call("funcao_61", "programa_54"))
     \/ /\ pc = "programa_54"
        /\ IF current_token # None
             THEN Raise(SyntaxError("Unexpected token after program completion",
                                    LinhaInt(current_token.linha), Absent, Absent,
                                    Absent, current_token.valor, Absent))
             ELSE Peek(Goto("done"))

parse_declaracao_funcao ==
  /\ Running
  /\ \/ /\ pc = "funcao_61"
        /\ Peek(Call("tipo_71", "funcao_62"))
     \/ /\ pc = "funcao_62"
        /\ consume(IDENTIFICADOR, NoValue, Goto("funcao_63"))
     \/ /\ pc = "funcao_63"
        /\ consume(SIMBOLO, "(", Goto("funcao_64"))
     \/ /\ pc = "funcao_64"
        /\ consume(SIMBOLO, ")", Goto("funcao_65"))
     \/ /\ pc = "funcao_65"
        /\ consume(SIMBOLO, "{", Goto("funcao_66"))
     \/ /\ pc = "funcao_66"
        /\ Peek(Call("lista_82", "funcao_67"))
     \/ /\ pc = "funcao_67"
        /\ consume(SIMBOLO, "}", Ret)

parse_tipo ==
  /\ Running
  /\ pc = "tipo_71"
  /\ IF current_token # None /\ current_token.tipo = PALAVRA_RESERVADA
        /\ current_token.valor \in Tipos
       THEN consume(PALAVRA_RESERVADA, current_token.valor, Ret)
       ELSE Raise(SyntaxError("Expected type (int, real, char), got",
                    IF current_token # None THEN LinhaInt(current_token.linha) ELSE LinhaEOF,
                    Absent, Absent, Absent,
                    IF current_token # None THEN current_token.valor ELSE "None",
                    Absent))

parse_lista_comandos ==
  /\ Running
  /\ pc = "lista_82"
  /\ IF current_token # None /\ ~IsSimbolo(current_token, "}")
       THEN Peek(Call("comando_89", "lista_82"))
       ELSE Peek(Ret)

\* parse_comando with the two followers of an identifier exchanged.
ComandoEscolha_trocado ==
  LET token == current_token
      e == SyntaxError("Unexpected token to start a command",
                       LinhaInt(token.linha), Absent, Absent, Absent, token.valor, Absent)
  IN
  IF token.tipo = PALAVRA_RESERVADA
    THEN IF token.valor = "return" THEN [rule |-> "retorno_158", e |-> NoErr]
         ELSE IF token.valor \in Tipos THEN [rule |-> "declvar_118", e |-> NoErr]
         ELSE [rule |-> "raise", e |-> e]
  ELSE IF token.tipo = IDENTIFICADOR /\ pos + 1 < Len(tokens)
    THEN IF IsSimbolo(tokens[pos + 2], "=") THEN [rule |-> "chamada_134", e |-> NoErr]
         ELSE IF IsSimbolo(tokens[pos + 2], "(") THEN [rule |-> "atrib_127", e |-> NoErr]
         ELSE [rule |-> "raise", e |-> e]
  ELSE [rule |-> "raise", e |-> e]

\* parse_comando returning, instead of raising, on a token that starts no statement.
ComandoEscolha_ignora ==
  LET token == current_token IN
  IF token.tipo = PALAVRA_RESERVADA /\ token.valor = "return"
    THEN [rule |-> "retorno_158", e |-> NoErr]
  ELSE IF token.tipo = PALAVRA_RESERVADA /\ token.valor \in Tipos
    THEN [rule |-> "declvar_118", e |-> NoErr]
  ELSE IF token.tipo = IDENTIFICADOR /\ pos + 1 < Len(tokens)
          /\ IsSimbolo(tokens[pos + 2], "=")
    THEN [rule |-> "atrib_127", e |-> NoErr]
  ELSE IF token.tipo = IDENTIFICADOR /\ pos + 1 < Len(tokens)
          /\ IsSimbolo(tokens[pos + 2], "(")
    THEN [rule |-> "chamada_134", e |-> NoErr]
  ELSE [rule |-> "comando_fim", e |-> NoErr]

\* The statement rule parse_comando selects, or the SyntaxError it raises.
ComandoEscolha ==
  LET token == current_token IN
  IF token = None
    THEN [rule |-> "raise",
          e |-> SyntaxError("Unexpected end of input expecting a command",
                            LinhaNone, Absent, Absent, Absent, Absent, Absent)]
  ELSE IF token.tipo = PALAVRA_RESERVADA
    THEN IF token.valor = "return" THEN [rule |-> "retorno_158", e |-> NoErr]
         ELSE IF token.valor \in Tipos THEN [rule |-> "declvar_118", e |-> NoErr]
         ELSE [rule |-> "raise",
               e |-> SyntaxError("Unexpected reserved word at start of a command",
                                 LinhaInt(token.linha), Absent, Absent,
                                 Absent, token.valor, Absent)]
  ELSE IF token.tipo = IDENTIFICADOR
    THEN IF pos + 1 < Len(tokens)
           THEN LET next_token == tokens[pos + 2] IN
                IF next_token.tipo = SIMBOLO /\ next_token.valor = "="
                  THEN [rule |-> "atrib_127", e |-> NoErr]
                ELSE IF next_token.tipo = SIMBOLO /\ next_token.valor = "("
                  THEN [rule |-> "chamada_134", e |-> NoErr]
                ELSE [rule |-> "raise",
                      e |-> SyntaxError("After identifier, expected '=' or '(' but got",
                                        LinhaInt(next_token.linha), Absent, Absent,
                                        Absent, next_token.valor, token.valor)]
           ELSE [rule |-> "raise",
                 e |-> SyntaxError("Unexpected end of input after identifier",
                                   LinhaInt(token.linha), Absent, Absent,
                                   Absent, Absent, token.valor)]
  ELSE [rule |-> "raise",
        e |-> SyntaxError("Unexpected token to start a command",
                          LinhaInt(token.linha), Absent, Absent,
                          Absent, token.valor, Absent)]

parse_comando ==
  /\ Running
  /\ \/ /\ pc = "comando_89"
        /\ IF ComandoEscolha.rule = "raise"
             THEN Raise(ComandoEscolha.e)
             ELSE Peek(Call(ComandoEscolha.rule, "comando_fim"))
     \/ /\ pc = "comando_fim"
        /\ Peek(Ret)

parse_declaracao_variavel ==
  /\ Running
  /\ \/ /\ pc = "declvar_118"
        /\ Peek(Call("tipo_71", "declvar_119"))
     \/ /\ pc = "declvar_119"
        /\ consume(IDENTIFICADOR, NoValue, Goto("declvar_120"))
     \/ /\ pc = "declvar_120"
        /\ IF IsSimbolo(current_token, "=")
             THEN consume(SIMBOLO, "=", Goto("declvar_122"))
             ELSE Peek(Goto("declvar_123"))
     \/ /\ pc = "declvar_122"
        /\ Peek(Call("expressao_166", "declvar_123"))
     \/ /\ pc = "declvar_123"
        /\ consume(SIMBOLO, ";", Ret)

parse_atribuicao ==
  /\ Running
  /\ \/ /\ pc = "atrib_127"
        /\ consume(IDENTIFICADOR, NoValue, Goto("atrib_128"))
     \/ /\ pc = "atrib_128"
        /\ consume(SIMBOLO, "=", Goto("atrib_129"))
     \/ /\ pc = "atrib_129"
        /\ Peek(Call("expressao_166", "atrib_130"))
     \/ /\ pc = "atrib_130"
        /\ consume(SIMBOLO, ";", Ret)

parse_chamada_funcao_stmt ==
  /\ Running
  /\ \/ /\ pc = "chamada_134"
        /\ consume(IDENTIFICADOR, NoValue, Goto("chamada_135"))
     \/ /\ pc = "chamada_135"
        /\ consume(SIMBOLO, "(", Goto("chamada_136"))
     \/ /\ pc = "chamada_136"
        /\ Peek(Call("argsopt_143", "chamada_137"))
     \/ /\ pc = "chamada_137"
        /\ consume(SIMBOLO, ")", Goto("chamada_138"))
     \/ /\ pc = "chamada_138"
        /\ consume(SIMBOLO, ";", Ret)

parse_lista_argumentos_opcional ==
  /\ Running
  /\ \/ /\ pc = "argsopt_143"
        /\ IF current_token # None /\ ~IsSimbolo(current_token, ")")
             THEN Peek(Call("args_151", "argsopt_fim"))
             ELSE Peek(Ret)
     \/ /\ pc = "argsopt_fim"
        /\ Peek(Ret)

parse_lista_argumentos ==
  /\ Running
  /\ \/ /\ pc = "args_151"
        /\ Peek(Call("expressao_166", "args_fim"))
     \/ /\ pc = "args_fim"
        /\ Peek(Ret)

parse_comando_retorno ==
  /\ Running
  /\ \/ /\ pc = "retorno_158"
        /\ consume(PALAVRA_RESERVADA, "return", Goto("retorno_159"))
     \/ /\ pc = "retorno_159"
        /\ Peek(Call("expressao_166", "retorno_160"))
     \/ /\ pc = "retorno_160"
        /\ consume(SIMBOLO, ";", Ret)

parse_expressao ==
  /\ Running
  /\ \/ /\ pc = "expressao_166"
        /\ Peek(Call("termo_173", "expressao_167"))
     \/ /\ pc = "expressao_167"
        /\ IF IsSimbolo(current_token, "+")
             THEN consume(SIMBOLO, "+", Goto("expressao_169"))
             ELSE Peek(Ret)
     \/ /\ pc = "expressao_169"
        /\ Peek(Call("termo_173", "expressao_167"))

TermoTipos == {IDENTIFICADOR, NUMERO, REAL, STRING_, CARACTERE}

parse_termo ==
  /\ Running
  /\ pc = "termo_173"
  /\ IF current_token = None
       THEN Raise(SyntaxError("Unexpected end of input expecting a term",
                              LinhaNone, Absent, Absent, Absent, Absent, Absent))
     ELSE IF current_token.tipo \in TermoTipos
       THEN consume(current_token.tipo, NoValue, Ret)
     ELSE Raise(SyntaxError("Expected identifier, number, real, string, or character, got",
                            LinhaInt(current_token.linha), Absent, Absent,
                            Absent, current_token.valor, Absent))

(***************************************************************************)
(* Token sequences handed to Parser(tokens).                               *)
(***************************************************************************)
MaxFree == 2
MaxStmts == 2

Tk(tipo, valor) == [tipo |-> tipo, valor |-> valor]
OnLine(s, n) == [k \in 1..Len(s) |-> Token(s[k].tipo, s[k].valor, n)]

\* One token of every kind, every symbol the scanner emits, and the reserved
\* words the recognizer tells apart (a type, return, any other).
Alphabet ==
  {Tk(PALAVRA_RESERVADA, "int"), Tk(PALAVRA_RESERVADA, "real"),
   Tk(PALAVRA_RESERVADA, "return"), Tk(PALAVRA_RESERVADA, "while"),
   Tk(IDENTIFICADOR, "x"), Tk(NUMERO, "1"), Tk(REAL, "1.5"),
   Tk(STRING_, "s"), Tk(CARACTERE, "c"),
   Tk(OPERADOR, "+"), Tk(COMENTARIO, "\\\\ c"), Tk(ERRO, "@")}
  \cup {Tk(SIMBOLO, v) : v \in {"(", ")", ";", "{", "}", "=", "+"}}

Cabecalho ==
  <<Tk(PALAVRA_RESERVADA, "int"), Tk(IDENTIFICADOR, "main"),
    Tk(SIMBOLO, "("), Tk(SIMBOLO, ")"), Tk(SIMBOLO, "{")>>

\* The statements of the example program the module writes to teste_limpo.txt.
ExemploComandos ==
  << <<Tk(PALAVRA_RESERVADA, "int"), Tk(IDENTIFICADOR, "valor"), Tk(SIMBOLO, "="),
       Tk(NUMERO, "10"), Tk(SIMBOLO, "+"), Tk(NUMERO, "20"), Tk(SIMBOLO, ";")>>,
     <<Tk(PALAVRA_RESERVADA, "real"), Tk(IDENTIFICADOR, "saldo"), Tk(SIMBOLO, "="),
       Tk(REAL, "150.75"), Tk(SIMBOLO, ";")>>,
     <<Tk(PALAVRA_RESERVADA, "char"), Tk(IDENTIFICADOR, "inicial"), Tk(SIMBOLO, "="),
       Tk(CARACTERE, "J"), Tk(SIMBOLO, ";")>>,
     <<Tk(IDENTIFICADOR, "printf"), Tk(SIMBOLO, "("), Tk(STRING_, "Teste"),
       Tk(SIMBOLO, ")"), Tk(SIMBOLO, ";")>>,
     <<Tk(IDENTIFICADOR, "valor"), Tk(SIMBOLO, "="), Tk(IDENTIFICADOR, "valor"),
       Tk(SIMBOLO, "+"), Tk(NUMERO, "5"), Tk(SIMBOLO, ";")>>,
     <<Tk(PALAVRA_RESERVADA, "return"), Tk(NUMERO, "0"), Tk(SIMBOLO, ";")>> >>

\* The statements cmds[k..], statement k on line k + 1.
RECURSIVE Corpo(_, _)
Corpo(cmds, k) ==
  IF k > Len(cmds) THEN <<>>
  ELSE OnLine(ExemploComandos[cmds[k]], k + 1) \o Corpo(cmds, k + 1)

\* A function whose body is the statements numbered by cmds, one per line.
Programa(cmds) ==
  OnLine(Cabecalho, 1) \o Corpo(cmds, 1) \o OnLine(<<Tk(SIMBOLO, "}")>>, Len(cmds) + 2)

ExemploLimpo == Programa(<<1, 2, 3, 4, 5, 6>>)

\* Programs of up to MaxStmts statements drawn from the example's.
Programas ==
  {Programa(cmds) : cmds \in UNION {[1..n -> 1..Len(ExemploComandos)] : n \in 0..MaxStmts}}

\* The header followed by up to MaxFree arbitrary tokens, one per line.
Livres ==
  {OnLine(Cabecalho, 1) \o [k \in 1..Len(w) |-> Token(w[k].tipo, w[k].valor, k + 1)] :
     w \in UNION {[1..n -> Alphabet] : n \in 0..MaxFree}}

\* The example program with one token replaced, removed or inserted (on the
\* line of either neighbour), or cut short.
Editados ==
  LET s == ExemploLimpo
      n == Len(s)
  IN  {[s EXCEPT ![p] = Token(t.tipo, t.valor, s[p].linha)] : p \in 1..n, t \in Alphabet}
      \cup {SubSeq(s, 1, p - 1) \o SubSeq(s, p + 1, n) : p \in 1..n}
      \cup {SubSeq(s, 1, p - 1) \o <<Token(t.tipo, t.valor, s[p].linha)>> \o SubSeq(s, p, n) :
              p \in 1..n, t \in Alphabet}
      \cup {SubSeq(s, 1, p) \o <<Token(t.tipo, t.valor, s[p].linha)>> \o SubSeq(s, p + 1, n) :
              p \in 1..n, t \in Alphabet}
      \cup {SubSeq(s, 1, p) : p \in 0..n}

Inputs == Programas \cup Livres \cup Editados

(***************************************************************************)
(* Parser(tokens).parse_programa()                                         *)
(***************************************************************************)
LexIdle ==
  /\ linha = <<>>
  /\ num_linha = 0
  /\ i = 0
  /\ lex_tokens = <<>>
  /\ lex_pc = "idle"

Init ==
  /\ tokens \in Inputs
  /\ pos = 0
  /\ current_token = TokenAt(0)
  /\ pc = "programa_53"
  /\ stack = <<>>
  /\ err = NoErr
  /\ LexIdle

Next ==
  \/ parse_programa
  \/ parse_declaracao_funcao
  \/ parse_tipo
  \/ parse_lista_comandos
  \/ parse_comando
  \/ parse_declaracao_variavel
  \/ parse_atribuicao
  \/ parse_chamada_funcao_stmt
  \/ parse_lista_argumentos_opcional
  \/ parse_lista_argumentos
  \/ parse_comando_retorno
  \/ parse_expressao
  \/ parse_termo

Spec == Init /\ [][Next]_vars

(***************************************************************************)
(* The language of the grammar, as the set of positions at which a         *)
(* derivation of each nonterminal starting at position p of s can end.     *)
(* Positions are 1-based; a derivation of the whole of s ends at Len(s)+1. *)
(***************************************************************************)
GKind(s, p, tipo) == IF p <= Len(s) /\ s[p].tipo = tipo THEN {p + 1} ELSE {}

GLit(s, p, tipo, valor) ==
  IF p <= Len(s) /\ s[p].tipo = tipo /\ s[p].valor = valor THEN {p + 1} ELSE {}

GSym(s, P, valor) == UNION {GLit(s, p, SIMBOLO, valor) : p \in P}

\* Type := 'int' | 'real' | 'char'
GType(s, p) == UNION {GLit(s, p, PALAVRA_RESERVADA, v) : v \in {"int", "real", "char"}}

\* Term := Identifier | Number | Real | String | Character
GTerm(s, p) ==
  UNION {GKind(s, p, k) : k \in {IDENTIFICADOR, NUMERO, REAL, STRING_, CARACTERE}}

\* Expr := Term ('+' Term)*
RECURSIVE GExpr(_, _)
GExpr(s, p) ==
  GTerm(s, p) \cup UNION {GExpr(s, q) : q \in GSym(s, GTerm(s, p), "+")}

GExprs(s, P) == UNION {GExpr(s, p) : p \in P}

\* ReturnStmt := 'return' Expr ';'
GReturnStmt(s, p) == GSym(s, GExprs(s, GLit(s, p, PALAVRA_RESERVADA, "return")), ";")

\* VarDecl := Type Identifier ('=' Expr)? ';'
GVarDecl(s, p) ==
  LET named == UNION {GKind(s, q, IDENTIFICADOR) : q \in GType(s, p)}
  IN  GSym(s, named \cup GExprs(s, GSym(s, named, "=")), ";")

\* Assignment := Identifier '=' Expr ';'
GAssignment(s, p) == GSym(s, GExprs(s, GSym(s, GKind(s, p, IDENTIFICADOR), "=")), ";")

\* CallStmt := Identifier '(' ArgOpt ')' ';'     ArgOpt := Expr?
GCallStmt(s, p) ==
  LET open == GSym(s, GKind(s, p, IDENTIFICADOR), "(")
  IN  GSym(s, GSym(s, open \cup GExprs(s, open), ")"), ";")

\* Stmt := ReturnStmt | VarDecl | Assignment | CallStmt
GStmt(s, p) ==
  GReturnStmt(s, p) \cup GVarDecl(s, p) \cup GAssignment(s, p) \cup GCallStmt(s, p)

\* StmtList := Stmt*
RECURSIVE GStmtList(_, _)
GStmtList(s, p) == {p} \cup UNION {GStmtList(s, q) : q \in GStmt(s, p)}

\* FunctionDecl := Type Identifier '(' ')' '{' StmtList '}'
GFunctionDecl(s, p) ==
  LET open == GSym(s, GSym(s, GSym(s,
                UNION {GKind(s, q, IDENTIFICADOR) : q \in GType(s, p)}, "("), ")"), "{")
  IN  GSym(s, UNION {GStmtList(s, q) : q \in open}, "}")

\* Program := FunctionDecl end-of-sequence
Derivable(s) == (Len(s) + 1) \in GFunctionDecl(s, 1)

Accepted == pc = "done"
Rejected == err # NoErr

\* C1: parse_programa returns without raising exactly when the whole token
\* sequence is derivable from the grammar: what it accepts is derivable (so
\* no token is left after the closing '}' and none is missing before it) and
\* what it rejects is not.
C1_AcceptsExactlyTheGrammar ==
  /\ Accepted => Derivable(tokens) /\ pos = Len(tokens)
  /\ Rejected => ~Derivable(tokens)

\* A program with statements in its body has been accepted.
C1_Witness == Accepted /\ Len(tokens) > Len(Cabecalho) + 1

(***************************************************************************)
(* What a SyntaxError reports.                                             *)
(***************************************************************************)
EndOfInputMsgs ==
  {"Unexpected end of input. Expected",
   "Unexpected end of input expecting a command",
   "Unexpected end of input after identifier",
   "Unexpected end of input expecting a term"}

\* The error says the input ended: linha is "EOF" or the message says so.
EndOfInputMarker(e) == e.linha = LinhaEOF \/ e.msg \in EndOfInputMsgs

Exhausted == pos >= Len(tokens)

\* C2 as stated: the error carries the line of the token at the cursor, or
\* an end-of-input marker exactly when the sequence is exhausted there.
C2_LineOfTokenAtCursor ==
  Rejected =>
    /\ Exhausted <=> EndOfInputMarker(err)
    /\ ~Exhausted => err.linha = LinhaInt(tokens[pos + 1].linha)

\* C2: every SyntaxError carries an integer line or an end-of-input
\* indication, never neither.  It carries no integer line exactly when the
\* cursor is past the last token.  With the cursor on a token the line is
\* that token's, except in parse_comando's lookahead: a follower of an
\* identifier that is neither '=' nor '(' is reported with the follower's
\* line, and a missing follower with the identifier's line and an
\* end-of-input message.
C2_LineOrEndOfInput ==
  Rejected =>
    /\ Exhausted <=> err.linha.tag # "int"
    /\ Exhausted => EndOfInputMarker(err)
    /\ ~Exhausted =>
         /\ err.linha =
              LinhaInt(IF err.msg = "After identifier, expected '=' or '(' but got"
                         THEN tokens[pos + 2].linha
                         ELSE tokens[pos + 1].linha)
         /\ EndOfInputMarker(err) =>
              /\ err.msg = "Unexpected end of input after identifier"
              /\ pos + 1 = Len(tokens)

\* The follower of a statement's identifier, on a later line, was rejected.
C2_Witness ==
  /\ Rejected
  /\ err.msg = "After identifier, expected '=' or '(' but got"
  /\ tokens[pos + 2].linha > tokens[pos + 1].linha

(***************************************************************************)
(* Statement selection.                                                    *)
(***************************************************************************)
AtComando == Running /\ pc = "comando_89"

Selects(rule) ==
  /\ pc' = rule
  /\ err' = NoErr
  /\ pos' = pos
  /\ current_token' = tokens[pos + 1]

\* C6: at statement start, `return` selects ReturnStmt, a type word selects
\* VarDecl, an Identifier followed by '=' selects Assignment and by '('
\* selects CallStmt, the cursor staying on the first token; an Identifier
\* with any other follower raises an error naming the identifier and the
\* follower; any other token raises an error.
C6_StatementSelection ==
  [][AtComando =>
       LET t == tokens[pos + 1] IN
       IF t.tipo = PALAVRA_RESERVADA /\ t.valor = "return" THEN Selects("retorno_158")
       ELSE IF t.tipo = PALAVRA_RESERVADA /\ t.valor \in {"int", "real", "char"}
         THEN Selects("declvar_118")
       ELSE IF t.tipo = IDENTIFICADOR /\ pos + 2 <= Len(tokens)
         THEN LET f == tokens[pos + 2] IN
              IF f.tipo = SIMBOLO /\ f.valor = "=" THEN Selects("atrib_127")
              ELSE IF f.tipo = SIMBOLO /\ f.valor = "(" THEN Selects("chamada_134")
              ELSE /\ err' # NoErr
                   /\ err'.ident = t.valor
                   /\ err'.got_valor = f.valor
                   /\ pos' = pos
       ELSE err' # NoErr /\ pos' = pos]_vars

\* CallStmt has been selected for `x (` with the cursor still on the identifier.
C6_Witness ==
  /\ pc = "chamada_134"
  /\ Running
  /\ current_token.tipo = IDENTIFICADOR
  /\ tokens[pos + 1] = current_token
  /\ IsSimbolo(tokens[pos + 2], "(")

(***************************************************************************)
(* A missing ';'.                                                          *)
(***************************************************************************)
\* The places that consume a statement's terminating ';'.
SemiSites == {"declvar_123", "atrib_130", "chamada_138", "retorno_160"}

\* A statement's ';' is due and another token stands in its place.
MissingSemi ==
  /\ Running
  /\ pc \in SemiSites
  /\ pos < Len(tokens)
  /\ ~IsSimbolo(tokens[pos + 1], ";")

\* The message of e says that a token of kind tipo with text valor was expected.
StatesExpected(e, tipo, valor) ==
  /\ e.exp_valor = valor
  /\ e.exp_tipo = tipo \/ (e.exp_tipo = Absent /\ e.got_tipo = tipo)

\* C7 as stated: the error says a Symbol ';' was expected, with the line of
\* the token found.
C7_ReportsSymbolSemicolon ==
  [][MissingSemi =>
       /\ err' # NoErr
       /\ pos' = pos
       /\ err'.linha = LinhaInt(tokens[pos + 1].linha)
       /\ StatesExpected(err', SIMBOLO, ";")]_vars

\* C7: when a statement's ';' is missing and another token follows in its
\* place, recognition fails at that token with that token's line; the error
\* says a token of kind Symbol was expected when the token found is of
\* another kind, and names the text ';' only when the token found is a
\* Symbol.
C7_ReportsSymbolOrSemicolon ==
  [][MissingSemi =>
       /\ err' # NoErr
       /\ pos' = pos
       /\ err'.linha = LinhaInt(tokens[pos + 1].linha)
       /\ IF tokens[pos + 1].tipo # SIMBOLO
            THEN err'.exp_tipo = SIMBOLO /\ err'.exp_valor = Absent
            ELSE StatesExpected(err', SIMBOLO, ";")]_vars

\* A statement was followed, on the next line, by a word instead of its ';'.
C7_Witness ==
  /\ Rejected
  /\ pc \in SemiSites
  /\ pos < Len(tokens)
  /\ pos > 0
  /\ tokens[pos + 1].tipo = PALAVRA_RESERVADA
  /\ tokens[pos + 1].linha > tokens[pos].linha
  /\ err.linha = LinhaInt(tokens[pos + 1].linha)

(***************************************************************************)
(* The cursor.                                                             *)
(***************************************************************************)
\* The places that call _consume.
ConsumeSites ==
  {"funcao_62", "funcao_63", "funcao_64", "funcao_65", "funcao_67", "tipo_71",
   "declvar_119", "declvar_120", "declvar_123", "atrib_127", "atrib_128", "atrib_130",
   "chamada_134", "chamada_135", "chamada_137", "chamada_138",
   "retorno_158", "retorno_160", "expressao_167", "termo_173"}

CursorInv ==
  /\ pos \in 0..Len(tokens)
  /\ current_token = IF pos < Len(tokens) THEN tokens[pos + 1] ELSE None

CursorStep ==
  /\ pos' >= pos
  /\ pos' # pos => pos' = pos + 1 /\ pc \in ConsumeSites /\ err' = NoErr /\ pos < Len(tokens)
  /\ err' # err => pos' = pos /\ current_token' = current_token

\* C9: 0 <= pos <= len(tokens) and current_token is tokens[pos] or none past
\* the end; pos never decreases and changes only through a successful
\* _consume, by exactly 1; a failing step leaves pos and current_token alone.
C9_CursorDiscipline == []CursorInv /\ [][CursorStep]_vars

\* A _consume failed after the cursor had advanced, with tokens left.
C9_Witness ==
  /\ Rejected
  /\ pc \in ConsumeSites
  /\ pos > 0
  /\ pos < Len(tokens)

(***************************************************************************)
(* Termination.                                                            *)
(***************************************************************************)
\* The recognizer is sequential: it keeps running until it returns or raises.
SpecFair == Spec /\ WF_vars(Next)

Terminated == Accepted \/ Rejected

\* A call made by the body of the statement loop or of the expression loop
\* returns to the loop's test.
LoopBodyReturns ==
  /\ Len(stack') < Len(stack)
  /\ stack[Len(stack)].ret \in {"lista_82", "expressao_167"}

\* C10: parse_programa ends, in success or in one SyntaxError; every
\* iteration of the statement loop and of the '+' loop that does not raise
\* has consumed a token when it returns to the loop's test; once a
\* SyntaxError is raised nothing more is consumed and no other is raised.
C10_Terminates ==
  /\ <>Terminated
  /\ [][LoopBodyReturns => pos' > stack[Len(stack)].at]_vars
  /\ [][Rejected => pos' = pos /\ err' = err]_vars

\* The statement loop has gone round twice and sees a third statement.
C10_Witness ==
  /\ pc = "lista_82"
  /\ Running
  /\ pos > Len(Cabecalho) + 5
  /\ current_token # None
  /\ ~IsSimbolo(current_token, "}")

(***************************************************************************)
(* analisador.py: analisar_linha(linha, num_linha).  A line is a sequence  *)
(* of characters, i the 0-based scan cursor, lex_tokens the list returned. *)
(***************************************************************************)
MaxPieces == 4

Letras == {"a", "i", "n", "t"}
Digitos == {"1"}
Espacos == {" "}
Simbolos == {"(", ")", ";", "{", "}", "=", "+"}
Chars == Letras \cup Digitos \cup Espacos \cup {"_", ".", "\"", "'", "\\", ";"}

isspace(c) == c \in Espacos
isalpha(c) == c \in Letras
isdigit(c) == c \in Digitos
isalnum(c) == isalpha(c) \/ isdigit(c)

palavras_reservadas ==
  {<<"i", "n", "t">>, <<"r", "e", "a", "l">>, <<"c", "h", "a", "r">>,
   <<"r", "e", "t", "u", "r", "n">>}

\* The lines scanned: up to MaxPieces pieces, each one character or the word int.
Pieces == {<<c>> : c \in Chars \ {"i", "n", "t"}} \cup {<<"i", "n", "t">>}

RECURSIVE Concat(_, _)
Concat(ps, k) == IF k > Len(ps) THEN <<>> ELSE ps[k] \o Concat(ps, k + 1)

Linhas == {Concat(ps, 1) : ps \in UNION {[1..n -> Pieces] : n \in 0..MaxPieces}}

NumsLinha == {1, 2}

\* while i < len(linha) and (linha[i].isalnum() or linha[i] == '_'): i += 1
RECURSIVE FimIdentificador(_, _)
FimIdentificador(l, j) ==
  IF j < Len(l) /\ (isalnum(l[j + 1]) \/ l[j + 1] = "_")
    THEN FimIdentificador(l, j + 1)
    ELSE j

\* The number loop without the break at a second '.'.
RECURSIVE VarreNumero_sem_parada(_, _, _)
VarreNumero_sem_parada(l, j, ponto) ==
  IF j < Len(l) /\ (isdigit(l[j + 1]) \/ l[j + 1] = ".")
    THEN VarreNumero_sem_parada(l, j + 1, ponto \/ l[j + 1] = ".")
    ELSE [i |-> j, ponto |-> ponto]

\* The number loop: where it stops and whether a '.' was consumed.
RECURSIVE VarreNumero(_, _, _)
VarreNumero(l, j, ponto) ==
  IF j < Len(l) /\ (isdigit(l[j + 1]) \/ l[j + 1] = ".")
    THEN IF l[j + 1] = "." /\ ponto
           THEN [i |-> j, ponto |-> ponto]
           ELSE VarreNumero(l, j + 1, ponto \/ l[j + 1] = ".")
    ELSE [i |-> j, ponto |-> ponto]

\* The string loop stopping at either kind of quote.
RECURSIVE FimString_qualquer_aspa(_, _)
FimString_qualquer_aspa(l, j) ==
  IF j < Len(l) /\ l[j + 1] # "\"" /\ l[j + 1] # "'"
    THEN FimString_qualquer_aspa(l, j + 1)
    ELSE j

\* while i < len(linha) and linha[i] != '"': i += 1
RECURSIVE FimString(_, _)
FimString(l, j) ==
  IF j < Len(l) /\ l[j + 1] # "\"" THEN FimString(l, j + 1) ELSE j

\* The character-literal test looking one place too near.
EhCaractere_perto(l, j) == j + 2 < Len(l) /\ l[j + 2] = "'"

\* if i + 2 < len(linha) and linha[i+2] == "'"
EhCaractere(l, j) == j + 2 < Len(l) /\ l[j + 3] = "'"

\* The branch of the if/elif chain taken for the character at the cursor.
Ramo(l, j) ==
  LET c == l[j + 1] IN
  IF isspace(c) THEN "espaco"
  ELSE IF isalpha(c) THEN "identificador"
  ELSE IF isdigit(c) THEN "numero"
  ELSE IF c = "\"" THEN "string"
  ELSE IF c = "'" THEN "caractere"
  ELSE IF c = "\\" /\ j + 1 < Len(l) /\ l[j + 2] = "\\" THEN "comentario"
  ELSE IF c \in Simbolos THEN "simbolo"
  ELSE "erro"

Scanning(ramo) == lex_pc = "scan" /\ i < Len(linha) /\ Ramo(linha, i) = ramo

\* tokens.append(tok) and the cursor moved to j, the loop going on.
Emit(tok, j) ==
  /\ lex_tokens' = Append(lex_tokens, tok)
  /\ i' = j
  /\ lex_pc' = "scan"
  /\ UNCHANGED <<linha, num_linha>>
  /\ UNCHANGED parserVars

\* tokens.append(tok); break
EmitBreak(tok) ==
  /\ lex_tokens' = Append(lex_tokens, tok)
  /\ lex_pc' = "done"
  /\ UNCHANGED <<linha, num_linha, i>>
  /\ UNCHANGED parserVars

lex_espaco ==
  /\ Scanning("espaco")
  /\ i' = i + 1
  /\ UNCHANGED <<linha, num_linha, lex_tokens, lex_pc>>
  /\ UNCHANGED parserVars

lex_identificador ==
  /\ Scanning("identificador")
  /\ LET fim == FimIdentificador(linha, i)
         lexema == SubSeq(linha, i + 1, fim)
     IN  Emit(Token(IF lexema \in palavras_reservadas
                      THEN PALAVRA_RESERVADA ELSE IDENTIFICADOR,
                    lexema, num_linha), fim)

lex_numero ==
  /\ Scanning("numero")
  /\ LET r == VarreNumero(linha, i, FALSE)
     IN  Emit(Token(IF r.ponto THEN REAL ELSE NUMERO,
                    SubSeq(linha, i + 1, r.i), num_linha), r.i)

lex_string ==
  /\ Scanning("string")
  /\ LET fim == FimString(linha, i + 1)
     IN  Emit(Token(STRING_, SubSeq(linha, i + 2, fim), num_linha), fim + 1)

lex_caractere ==
  /\ Scanning("caractere")
  /\ IF EhCaractere(linha, i)
       THEN Emit(Token(CARACTERE, <<linha[i + 2]>>, num_linha), i + 3)
       ELSE EmitBreak(Token(ERRO, SubSeq(linha, i + 1, Len(linha)), num_linha))

lex_comentario ==
  /\ Scanning("comentario")
  /\ EmitBreak(Token(COMENTARIO, SubSeq(linha, i + 1, Len(linha)), num_linha))

lex_simbolo ==
  /\ Scanning("simbolo")
  /\ Emit(Token(SIMBOLO, <<linha[i + 1]>>, num_linha), i + 1)

lex_erro ==
  /\ Scanning("erro")
  /\ Emit(Token(ERRO, <<linha[i + 1]>>, num_linha), i + 1)

\* The loop's test fails: return tokens.
lex_fim ==
  /\ lex_pc = "scan"
  /\ i >= Len(linha)
  /\ lex_pc' = "done"
  /\ UNCHANGED <<linha, num_linha, i, lex_tokens>>
  /\ UNCHANGED parserVars

ParserIdle ==
  /\ tokens = <<>>
  /\ pos = 0
  /\ current_token = None
  /\ pc = "idle"
  /\ stack = <<>>
  /\ err = NoErr

InitLex ==
  /\ linha \in Linhas
  /\ num_linha \in NumsLinha
  /\ i = 0
  /\ lex_tokens = <<>>
  /\ lex_pc = "scan"
  /\ ParserIdle

NextLex ==
  \/ lex_espaco
  \/ lex_identificador
  \/ lex_numero
  \/ lex_string
  \/ lex_caractere
  \/ lex_comentario
  \/ lex_simbolo
  \/ lex_erro
  \/ lex_fim

SpecLex == InitLex /\ [][NextLex]_vars

(***************************************************************************)
(* What the scanner emits.                                                 *)
(***************************************************************************)
\* The cursor is on a character of S at the top of the scan loop.
AtCursor(S) == lex_pc = "scan" /\ i < Len(linha) /\ linha[i + 1] \in S

\* The length of the longest run of characters of S that starts after l[j].
RunLen(l, j, S) ==
  CHOOSE k \in 0..(Len(l) - j) :
    /\ \A m \in 1..k : l[j + m] \in S
    /\ j + k = Len(l) \/ l[j + k + 1] \notin S

\* Exactly one token tok is appended and the cursor moves to j.
EmitsOne(tok, j) == lex_tokens' = Append(lex_tokens, tok) /\ i' = j

LastToken == lex_tokens[Len(lex_tokens)]

\* C3 as stated: at a letter or an underscore the scanner consumes the
\* longest run of letters, digits and underscores and emits one token for
\* it, ReservedWord if the run is a reserved word, else Identifier.
C3_LetterOrUnderscoreStart ==
  [][AtCursor(Letras \cup {"_"}) =>
       LET n == RunLen(linha, i, Letras \cup Digitos \cup {"_"})
           lexema == SubSeq(linha, i + 1, i + n)
       IN  EmitsOne(Token(IF lexema \in palavras_reservadas
                            THEN PALAVRA_RESERVADA ELSE IDENTIFICADOR,
                          lexema, num_linha), i + n)]_vars

\* C4: at a single quote, when the character two places on is a quote, one
\* Character token holding the character between is emitted and the cursor
\* advances by 3; otherwise one Error token holding the rest of the line
\* from the quote is emitted and the scan of the line is over; once the scan
\* is over no token is added.
C4_CharLiteral ==
  /\ [][AtCursor({"'"}) =>
          IF i + 3 <= Len(linha) /\ linha[i + 3] = "'"
            THEN /\ EmitsOne(Token(CARACTERE, <<linha[i + 2]>>, num_linha), i + 3)
                 /\ lex_pc' = "scan"
            ELSE /\ lex_tokens' = Append(lex_tokens,
                      Token(ERRO, SubSeq(linha, i + 1, Len(linha)), num_linha))
                 /\ lex_pc' = "done"]_vars
  /\ [][lex_pc = "done" => lex_tokens' = lex_tokens]_vars

\* A character literal was scanned and then a malformed one ended the scan.
C4_Witness ==
  /\ lex_pc = "done"
  /\ Len(lex_tokens) >= 2
  /\ lex_tokens[Len(lex_tokens) - 1].tipo = CARACTERE
  /\ LastToken.tipo = ERRO
  /\ LastToken.valor[1] = "'"
  /\ i < Len(linha)

\* The positions of the run of n characters after l[j] that hold a '.'.
Pontos(l, j, n) == {m \in 1..n : l[j + m] = "."}

\* The length of the numeric lexeme at j: the run of digits and dots, cut
\* before its second '.'.
NumLen(l, j) ==
  LET n == RunLen(l, j, Digitos \cup {"."})
      dots == Pontos(l, j, n)
  IN  IF Cardinality(dots) >= 2
        THEN (CHOOSE m \in dots : Cardinality({d \in dots : d < m}) = 1) - 1
        ELSE n

\* C5: at a digit the lexeme emitted is the longest run of digits and dots,
\* cut before a second '.'; the token is Real if it holds a '.', else
\* Number; a second '.' stays at the cursor, and a '.' at the cursor starts
\* a new token.
C5_NumericLexeme ==
  /\ [][AtCursor(Digitos) =>
          LET n == NumLen(linha, i)
              lexema == SubSeq(linha, i + 1, i + n)
          IN  /\ EmitsOne(Token(IF \E m \in 1..n : lexema[m] = "." THEN REAL ELSE NUMERO,
                                lexema, num_linha), i + n)
              /\ lex_pc' = "scan"]_vars
  /\ [][AtCursor({"."}) =>
          /\ Len(lex_tokens') = Len(lex_tokens) + 1
          /\ SubSeq(lex_tokens', 1, Len(lex_tokens)) = lex_tokens
          /\ lex_tokens'[Len(lex_tokens')].valor[1] = "."
          /\ i' = i + 1]_vars

\* A Real was emitted and the second '.' of the run is at the cursor.
C5_Witness ==
  /\ lex_pc = "scan"
  /\ Len(lex_tokens) >= 1
  /\ LastToken.tipo = REAL
  /\ i < Len(linha)
  /\ linha[i + 1] = "."

\* C8: at a double quote one String token is emitted holding the characters
\* after the quote up to the next double quote or the end of the line; the
\* cursor moves past the closing quote, or past the end of the line when
\* there is none, and then the scan ends with no further token.
C8_StringLiteral ==
  /\ [][AtCursor({"\""}) =>
          LET n == RunLen(linha, i + 1, Chars \ {"\""})
          IN  /\ EmitsOne(Token(STRING_, SubSeq(linha, i + 2, i + 1 + n), num_linha),
                          i + n + 2)
              /\ lex_pc' = "scan"]_vars
  /\ [][lex_pc = "scan" /\ i >= Len(linha) =>
          lex_tokens' = lex_tokens /\ lex_pc' = "done"]_vars

\* An unterminated string ended the scan: its String token is the last.
C8_Witness ==
  /\ lex_pc = "done"
  /\ i = Len(linha) + 1
  /\ Len(lex_tokens) >= 1
  /\ LastToken.tipo = STRING_
  /\ Len(LastToken.valor) >= 2
  /\ \A t \in 1..Len(lex_tokens) : lex_tokens[t].tipo # ERRO

====
